---- MODULE Spec2Model ----
(***************************************************************************)
(* Model of the SignalK -> Home Assistant bridge: the delta handler of     *)
(* index.js with the SensorConverter, HADiscovery, MQTTClient,             *)
(* DeviceRegistry and SignalKClient objects it drives.                     *)
(*                                                                         *)
(* Strings are sequences of tokens.  A token is either a word (an atomic   *)
(* run of letters) or a single character; "." "_" "*" and the digits are   *)
(* single characters.  Concatenation is \o, String.includes is token       *)
(* containment.  Finite numbers are integers counting hundredths           *)
(* (293.15 is 29315).                                                      *)
(***************************************************************************)
EXTENDS Integers, Sequences, FiniteSets, TLC

\* ------------------------------------------------------------------------
\* Bounds of the model
\* ------------------------------------------------------------------------
MaxDeltas == 2
MaxFetches == 2

\* ------------------------------------------------------------------------
\* Program constants
\* ------------------------------------------------------------------------
PUBLISH_THROTTLE_MS == 1000
KelvinOffset == 27315

\* Date.now() of a running deployment, in milliseconds.  Every reading of a
\* real clock is far above the throttle window; the model's integers are
\* 32 bits wide, so a small reading above the window stands for it.
StartClock == 100000

\* ------------------------------------------------------------------------
\* Strings
\* ------------------------------------------------------------------------
SingleChars == {".", "_", "*", "0", "1", "2"}

includes(str, tok) == \E i \in 1..Len(str) : str[i] = tok

PathTemp == <<"environment", ".", "water", ".", "temperature">>
PathDate == <<"navigation", ".", "datetime">>
PathLog == <<"navigation", ".", "log">>
PathPos == <<"navigation", ".", "position">>
PathAtt == <<"navigation", ".", "attitude">>
PathAttYaw == PathAtt \o <<".", "yaw">>
PathAttLabel == PathAtt \o <<".", "label">>
PathAttRoll == PathAtt \o <<".", "roll">>

\* the paths of the pairs the delta handler is observed on
Paths == {PathTemp, PathDate, PathLog, PathAtt, PathAttYaw, PathAttLabel, PathAttRoll}
\* tanks_fuel.level, fuel.level and tanks.fuel.level
PathTanksFuel == <<"tanks", "_", "fuel", ".", "level">>
PathFuel == <<"fuel", ".", "level">>
PathTanksDotFuel == <<"tanks", ".", "fuel", ".", "level">>
PathBat0 == <<"electrical", ".", "batteries", ".", "0", ".", "voltage">>
PathBat1 == <<"electrical", ".", "batteries", ".", "1", ".", "voltage">>
PathSolar == <<"electrical", ".", "solar", ".", "1", ".", "voltage">>
PathBatCurrent == <<"electrical", ".", "batteries", ".", "0", ".", "current">>
PathBatJoined == <<"electrical", ".", "batteries", ".", "0", "_", "voltage">>

\* keys of config.sensors that hold a wildcard
PatBatVoltage == <<"electrical", ".", "batteries", ".", "*", ".", "voltage">>
PatAnyVoltage == <<"electrical", ".", "*", ".", "*", ".", "voltage">>

SourceIds == {<<"1">>, <<"2">>}

\* ------------------------------------------------------------------------
\* JavaScript values
\* ------------------------------------------------------------------------
\* m lists the members of an object as <<key, value>> in Object.entries order
Num(n) == [kind |-> "number", n |-> n, s |-> "", m |-> <<>>]
NaN == [kind |-> "nan", n |-> 0, s |-> "", m |-> <<>>]
Infinity == [kind |-> "inf", n |-> 0, s |-> "", m |-> <<>>]
NegInfinity == [kind |-> "-inf", n |-> 0, s |-> "", m |-> <<>>]
Null == [kind |-> "null", n |-> 0, s |-> "", m |-> <<>>]
Undefined == [kind |-> "undefined", n |-> 0, s |-> "", m |-> <<>>]
Str(s) == [kind |-> "string", n |-> 0, s |-> s, m |-> <<>>]
Bool(b) == [kind |-> "boolean", n |-> IF b THEN 1 ELSE 0, s |-> "", m |-> <<>>]
Obj(members) == [kind |-> "object", n |-> 0, s |-> "", m |-> members]
\* an array: typeof is "object", Array.isArray is true; m lists <<index, element>>
Arr(members) == [kind |-> "array", n |-> 0, s |-> "", m |-> members]

\* value[key], undefined when the member is missing
Member(value, key) ==
    IF \E i \in 1..Len(value.m) : value.m[i][1] = key
    THEN value.m[CHOOSE i \in 1..Len(value.m) : value.m[i][1] = key][2]
    ELSE Undefined

Truthy(v) ==
    \/ v.kind \in {"inf", "-inf", "object", "array"}
    \/ v.kind \in {"number", "boolean"} /\ v.n # 0
    \/ v.kind = "string" /\ v.s # ""

\* typeof v === 'object' for a value that is not null
IsObjectType(v) == v.kind \in {"object", "array"}
IsNumberType(v) == v.kind \in {"number", "nan", "inf", "-inf"}
isFinite(v) == v.kind = "number"
Absent(v) == v.kind \in {"null", "undefined"}

ValidDateString == "2024-04-27T12:34:56Z"
InvalidDateString == "not-a-date"

\* meta objects: units is "" when the entry has no meta.units
Meta(u) == [units |-> u]
NoMeta == Meta("")

\* ------------------------------------------------------------------------
\* SensorConverter
\* ------------------------------------------------------------------------
Config(en, name, dc, unit, icon) ==
    [enabled |-> en, name |-> name, deviceClass |-> dc, unit |-> unit, icon |-> icon]

\* config.sensors of app-config.json, in declared order: <<path or pattern, config>>
ConfigSensors ==
    << <<PathLog, Config(FALSE, <<"Trip", " ", "Log">>, "distance", "m", "mdi:map-marker-distance")>>,
       <<PatBatVoltage, Config(TRUE, <<"Battery", " ", "Voltage">>, "voltage", "V", "mdi:car-battery")>>,
       <<PatAnyVoltage, Config(TRUE, <<"Bus", " ", "Voltage">>, "voltage", "V", "mdi:flash")>>,
       <<PathBat0, Config(TRUE, <<"House", " ", "Battery">>, "voltage", "V", "mdi:home-battery")>> >>

RECURSIVE RegexTest(_, _)
\* new RegExp(`^${pattern}$`).test(path): "*" was replaced by [^.]+ and an
\* unescaped "." of the pattern matches any single character.
RegexTest(pat, str) ==
    IF pat = <<>> THEN str = <<>>
    ELSE IF Head(pat) = "*"
         THEN \E n \in 1..Len(str) :
                 /\ \A i \in 1..n : str[i] # "."
                 /\ RegexTest(Tail(pat), SubSeq(str, n + 1, Len(str)))
    ELSE IF Head(pat) = "."
         THEN str # <<>> /\ Head(str) \in SingleChars /\ RegexTest(Tail(pat), Tail(str))
    ELSE str # <<>> /\ Head(str) = Head(pat) /\ RegexTest(Tail(pat), Tail(str))

Before(str, ws1, ws2) ==
    \E i, j \in 1..Len(str) : i < j /\ str[i] \in ws1 /\ str[j] \in ws2

HasAny(str, ws) == \E i \in 1..Len(str) : str[i] \in ws

EndsWith(str, suffix) ==
    Len(str) >= Len(suffix) /\ SubSeq(str, Len(str) - Len(suffix) + 1, Len(str)) = suffix

Meta3(dc, unit, icon) == [deviceClass |-> dc, unit |-> unit, icon |-> icon]

\* deviceClassMap, first matching entry wins; "" stands for null
inferMetadata(signalkPath, value) ==
    IF Before(signalkPath, {"water", "outside", "inside", "engine", "exhaust", "coolant"}, {"temperature"})
        THEN Meta3("temperature", "degC", "mdi:thermometer")
    ELSE IF includes(signalkPath, "temperature")
        THEN Meta3("temperature", "degC", "mdi:thermometer")
    ELSE IF includes(signalkPath, "speedOverGround") \/ EndsWith(signalkPath, <<".", "sog">>)
        THEN Meta3("speed", "m/s", "mdi:speedometer")
    ELSE IF includes(signalkPath, "speedThroughWater") \/ EndsWith(signalkPath, <<".", "stw">>)
        THEN Meta3("speed", "m/s", "mdi:speedometer-medium")
    ELSE IF Before(signalkPath, {"wind"}, {"speed"}) \/ includes(signalkPath, "windSpeed")
        THEN Meta3("wind_speed", "m/s", "mdi:weather-windy")
    ELSE IF Before(signalkPath, {"depth"}, {"below", "surface"})
        THEN Meta3("distance", "m", "mdi:waves")
    ELSE IF HasAny(signalkPath, {"log", "trip", "distance"})
        THEN Meta3("distance", "m", "mdi:map-marker-distance")
    ELSE IF HasAny(signalkPath, {"heading", "course", "courseOver", "cog", "angle", "direction"})
        THEN Meta3("", "rad", "mdi:compass")
    ELSE IF Before(signalkPath, {"wind"}, {"angle"})
        THEN Meta3("", "rad", "mdi:windsock")
    ELSE IF includes(signalkPath, "voltage")
        THEN Meta3("voltage", "V", "mdi:flash")
    ELSE IF includes(signalkPath, "current") /\ ~Before(signalkPath, {"current"}, {"level"})
        THEN Meta3("current", "A", "mdi:current-ac")
    ELSE IF includes(signalkPath, "pressure")
        THEN Meta3("pressure", "Pa", "mdi:gauge")
    ELSE IF includes(signalkPath, "position")
        THEN Meta3("", "", "mdi:crosshairs-gps")
    ELSE IF includes(signalkPath, "satellites")
        THEN Meta3("", "", "mdi:satellite-variant")
    ELSE IF value.kind = "boolean"
        THEN Meta3("", "", "mdi:toggle-switch")
    ELSE Meta3("", "", "mdi:gauge")

\* part.charAt(0).toUpperCase() + part.slice(1), then a space before capitals
TitleCase(word) ==
    CASE word = "water" -> "Water"
      [] word = "temperature" -> "Temperature"
      [] word = "navigation" -> "Navigation"
      [] word = "datetime" -> "Datetime"
      [] word = "environment" -> "Environment"
      [] word = "log" -> "Log"
      [] word = "position" -> "Position"
      [] word = "attitude" -> "Attitude"
      [] word = "yaw" -> "Yaw"
      [] word = "pitch" -> "Pitch"
      [] word = "label" -> "Label"
      [] word = "roll" -> "Roll"
      [] word = "current" -> "Current"
      [] word = "voltage" -> "Voltage"
      [] word = "tanks" -> "Tanks"
      [] word = "fuel" -> "Fuel"
      [] word = "level" -> "Level"
      [] word = "latitude" -> "Latitude"
      [] word = "longitude" -> "Longitude"
      [] OTHER -> word

RECURSIVE LastSegments(_, _)
\* the tokens of the last n dot-separated segments, dots kept
LastSegments(str, n) ==
    IF str = <<>> THEN <<>>
    ELSE LET last == str[Len(str)]
             init == SubSeq(str, 1, Len(str) - 1)
         IN  IF last = "."
             THEN IF n = 1 THEN <<>> ELSE Append(LastSegments(init, n - 1), last)
             ELSE Append(LastSegments(init, n), last)

generateFriendlyName(signalkPath) ==
    LET rel == LastSegments(signalkPath, 2)
    IN  [i \in 1..Len(rel) |->
            IF rel[i] = "." THEN " "
            ELSE IF i = 1 \/ rel[i - 1] = "." THEN TitleCase(rel[i])
            ELSE rel[i]]

autoGenerateConfig(signalkPath, value) ==
    LET m == inferMetadata(signalkPath, value)
    IN  Config(TRUE, generateFriendlyName(signalkPath), m.deviceClass, m.unit, m.icon)

RECURSIVE FirstWildcard(_, _)
FirstWildcard(table, signalkPath) ==
    IF table = <<>> THEN <<>>
    ELSE IF includes(Head(table)[1], "*") /\ RegexTest(Head(table)[1], signalkPath)
         THEN <<Head(table)[2]>>
    ELSE FirstWildcard(Tail(table), signalkPath)

getSensorConfig_WildcardFirst(signalkPath, value) ==
    IF FirstWildcard(ConfigSensors, signalkPath) # <<>>
    THEN FirstWildcard(ConfigSensors, signalkPath)[1]
    ELSE IF \E i \in 1..Len(ConfigSensors) : ConfigSensors[i][1] = signalkPath
         THEN ConfigSensors[CHOOSE i \in 1..Len(ConfigSensors) : ConfigSensors[i][1] = signalkPath][2]
    ELSE autoGenerateConfig(signalkPath, value)

getSensorConfig(signalkPath, value) ==
    IF \E i \in 1..Len(ConfigSensors) : ConfigSensors[i][1] = signalkPath
    THEN ConfigSensors[CHOOSE i \in 1..Len(ConfigSensors) : ConfigSensors[i][1] = signalkPath][2]
    ELSE IF FirstWildcard(ConfigSensors, signalkPath) # <<>>
         THEN FirstWildcard(ConfigSensors, signalkPath)[1]
    ELSE autoGenerateConfig(signalkPath, value)

\* getTempTransform: the transform is chosen from meta.units at the first call
\* for a path and cached under the path; the result is <<transform, cache>>.
TransformOf(meta) ==
    IF meta.units = "K" THEN "K"
    ELSE IF meta.units \in {"F", "degF"} THEN "F"
    ELSE "identity"

getTempTransform(cache, signalkPath, meta) ==
    IF signalkPath \in DOMAIN cache
    THEN <<cache[signalkPath], cache>>
    ELSE LET transform == TransformOf(meta)
         IN  <<transform, [q \in DOMAIN cache \cup {signalkPath} |->
                              IF q = signalkPath THEN transform ELSE cache[q]]>>

\* nearest integer to a / b (b > 0), ties upwards
RoundDiv(a, b) == (2 * a + b) \div (2 * b)

\* the three transform closures, on hundredths
ApplyTransform(transform, n) ==
    IF transform = "K" THEN n - KelvinOffset
    ELSE IF transform = "F" THEN RoundDiv((n - 3200) * 5, 9)
    ELSE n

\* Number(value.toFixed(d)) on hundredths
toFixed(n, digits) == IF digits = 1 THEN RoundDiv(n, 10) * 10 ELSE n

smartRound(n, signalkPath, sensorConfig) ==
    IF includes(signalkPath, "position") THEN n
    ELSE IF includes(signalkPath, "pressure") THEN toFixed(n, 2)
    ELSE IF \/ sensorConfig.deviceClass \in {"temperature", "speed", "wind_speed", "distance"}
            \/ sensorConfig.unit \in {"rad", "deg"}
         THEN toFixed(n, 1)
    ELSE toFixed(n, 2)

\* new Date(value) is a valid time value
ValidDate(value) ==
    \/ value.kind \in {"number", "boolean"}
    \/ value.kind = "string" /\ value.s = ValidDateString

\* payloads handed to MQTTClient.publish
Payload(kind, n, str, members) == [kind |-> kind, n |-> n, s |-> str, m |-> members]
Unknown == Payload("unknown", 0, "", <<>>)

Returned(out, cache) == [threw |-> FALSE, out |-> out, cache |-> cache]
Thrown(cache) == [threw |-> TRUE, out |-> Payload("none", 0, "", <<>>), cache |-> cache]

\* SensorConverter.convertValue of the converter index.js calls (the
\* transform cache is the converter's field, read and written here)
convertValue(rawMode, cache, signalkPath, value, sensorConfig, meta) ==
    IF Absent(value) THEN Returned(Unknown, cache)
    ELSE IF /\ includes(signalkPath, "position") /\ IsObjectType(value)
            /\ Truthy(Member(value, "latitude")) /\ Truthy(Member(value, "longitude"))
         THEN IF isFinite(Member(value, "latitude")) /\ isFinite(Member(value, "longitude"))
              THEN Returned(Payload("position", 0, "",
                       << <<"value", <<Member(value, "latitude"), Member(value, "longitude")>> >>,
                          <<"latitude", Member(value, "latitude")>>,
                          <<"longitude", Member(value, "longitude")>> >>), cache)
              ELSE IF IsNumberType(Member(value, "latitude")) /\ IsNumberType(Member(value, "longitude"))
                   THEN Returned(Payload("position", 0, "",
                       << <<"value", <<Member(value, "latitude"), Member(value, "longitude")>> >>,
                          <<"latitude", Null>>, <<"longitude", Null>> >>), cache)
              ELSE Thrown(cache)        \* toFixed is not a function
    ELSE IF includes(signalkPath, "datetime") \/ sensorConfig.deviceClass = "timestamp"
         THEN IF ValidDate(value)
              THEN Returned(Payload("iso", value.n, value.s, <<>>), cache)
              ELSE Thrown(cache)        \* toISOString: RangeError, invalid time value
    ELSE IF IsNumberType(value)
         THEN IF ~isFinite(value) THEN Returned(Unknown, cache)
              ELSE IF rawMode THEN Returned(Payload("number", value.n, "", <<>>), cache)
              ELSE IF sensorConfig.deviceClass = "temperature"
                   THEN LET tc == getTempTransform(cache, signalkPath, meta)
                        IN  Returned(Payload("number",
                                smartRound(ApplyTransform(tc[1], value.n), signalkPath, sensorConfig),
                                "", <<>>), tc[2])
              ELSE Returned(Payload("number", smartRound(value.n, signalkPath, sensorConfig), "", <<>>), cache)
    ELSE IF IsObjectType(value)
         THEN Returned(Payload(IF value.kind = "array" THEN "json[]" ELSE "json", 0, "", value.m), cache)
    ELSE Returned(Payload("string", value.n, value.s, <<>>), cache)

\* ------------------------------------------------------------------------
\* DeviceRegistry: devices maps a source id to its device info
\* ------------------------------------------------------------------------
Device(manufacturer, model) == [manufacturer |-> manufacturer, model |-> model]

\* bodies the /signalk/v1/api/sources request can answer with; n2k is the
\* "n2k-output" member, a function from source ids to device infos
Body(parsable, hasN2k, n2k) == [parsable |-> parsable, hasN2k |-> hasN2k, n2k |-> n2k]
Unparsable == Body(FALSE, FALSE, <<>>)
NoN2kOutput == Body(TRUE, FALSE, <<>>)
BodyA == Body(TRUE, TRUE, [sid \in {<<"1">>} |-> Device(<<"Garmin">>, <<"GPS">>)])
Bodies == {Unparsable, NoN2kOutput, BodyA}

parseDevices(devs, sources) ==
    IF ~sources.hasN2k THEN devs
    ELSE [sid \in DOMAIN devs \cup DOMAIN sources.n2k |->
             IF sid \in DOMAIN sources.n2k THEN sources.n2k[sid] ELSE devs[sid]]

\* <<>> stands for null
getDevice(devs, sourceId) == IF sourceId \in DOMAIN devs THEN <<devs[sourceId]>> ELSE <<>>

getManufacturer(devs, sourceId) ==
    IF getDevice(devs, sourceId) # <<>> THEN getDevice(devs, sourceId)[1].manufacturer
    ELSE <<"NMEA 2000">>

getModel(devs, sourceId) ==
    IF getDevice(devs, sourceId) # <<>> THEN getDevice(devs, sourceId)[1].model
    ELSE <<"NMEA 2000 Device">>

\* ------------------------------------------------------------------------
\* HADiscovery
\* ------------------------------------------------------------------------
DiscoveryPrefix == <<"homeassistant">>
BridgeDeviceId == <<"n2k_bridge">>

getDeviceId(sourceId) == <<"n2k_src_">> \o sourceId

getSensorId(signalkPath) ==
    [i \in 1..Len(signalkPath) |->
        IF signalkPath[i] = "." THEN "_"
        ELSE IF signalkPath[i] = "*" THEN "wildcard"
        ELSE signalkPath[i]]

getDiscoveryTopic(signalkPath, sourceId) ==
    DiscoveryPrefix \o <<"/", "sensor", "/">> \o getDeviceId(sourceId)
        \o <<"/">> \o getSensorId(signalkPath) \o <<"/", "config">>

getStateTopic(signalkPath, sourceId) ==
    DiscoveryPrefix \o <<"/", "sensor", "/">> \o getDeviceId(sourceId)
        \o <<"/">> \o getSensorId(signalkPath) \o <<"/", "state">>

isComplexSensor(signalkPath) == includes(signalkPath, "position")

getDeviceName(devs, sourceId, sourceLabel, source) ==
    IF /\ getDevice(devs, sourceId) # <<>>
       /\ getDevice(devs, sourceId)[1].manufacturer # <<>>
       /\ getDevice(devs, sourceId)[1].model # <<>>
    THEN getDevice(devs, sourceId)[1].manufacturer \o <<" ">> \o getDevice(devs, sourceId)[1].model
    ELSE IF sourceLabel # <<>> /\ sourceLabel # <<"N2K Source ">> \o sourceId
         THEN sourceLabel
    ELSE <<"N2K Source ">> \o sourceId

getDeviceModel(devs, sourceId, source) ==
    IF getModel(devs, sourceId) # <<>> /\ getModel(devs, sourceId) # <<"NMEA 2000 Device">>
    THEN getModel(devs, sourceId)
    ELSE IF source.type # <<>> THEN source.type
    ELSE <<"NMEA 2000 Device">>

getDeviceManufacturer(devs, sourceId) == getManufacturer(devs, sourceId)

\* the discovery payload publishDiscovery builds; "" and <<>> are absent fields
DiscoveryPayload(rawMode, devs, signalkPath, sensorConfig, sourceId, sourceLabel, source, meta) ==
    [ name |-> IF rawMode THEN sensorConfig.name \o <<" (raw)">> ELSE sensorConfig.name,
      unique_id |-> IF rawMode
                    THEN getDeviceId(sourceId) \o <<"_">> \o getSensorId(signalkPath) \o <<"_raw">>
                    ELSE getDeviceId(sourceId) \o <<"_">> \o getSensorId(signalkPath),
      state_topic |-> getStateTopic(signalkPath, sourceId),
      device |-> [ identifiers |-> getDeviceId(sourceId),
                   name |-> getDeviceName(devs, sourceId, sourceLabel, source),
                   manufacturer |-> getDeviceManufacturer(devs, sourceId),
                   model |-> getDeviceModel(devs, sourceId, source),
                   via_device |-> BridgeDeviceId ],
      device_class |-> IF ~rawMode THEN sensorConfig.deviceClass ELSE "",
      unit_of_measurement |-> IF rawMode THEN meta.units ELSE sensorConfig.unit,
      suggested_display_precision |-> IF ~rawMode /\ sensorConfig.unit = "deg" THEN 1 ELSE 0,
      icon |-> sensorConfig.icon,
      state_class |-> IF sensorConfig.unit # "" /\ ~isComplexSensor(signalkPath)
                      THEN "measurement" ELSE "",
      value_template |-> IF isComplexSensor(signalkPath) THEN "{{ value_json.value }}" ELSE "",
      json_attributes_topic |-> IF isComplexSensor(signalkPath)
                                THEN getStateTopic(signalkPath, sourceId) ELSE <<>> ]

\* ------------------------------------------------------------------------
\* index.js: the delta handler
\* ------------------------------------------------------------------------
Get(f, k, default) == IF k \in DOMAIN f THEN f[k] ELSE default
Put(f, k, v) == [x \in DOMAIN f \cup {k} |-> IF x = k THEN v ELSE f[x]]

IsScalarOrNull(v) == IsNumberType(v) \/ v.kind \in {"string", "boolean", "null"}

expandObjectPaths_Never(path, value) == << [path |-> path, value |-> value] >>

expandObjectPaths(path, value) ==
    IF Absent(value) THEN << [path |-> path, value |-> value] >>
    ELSE IF /\ includes(path, "position") /\ IsObjectType(value)
            /\ Truthy(Member(value, "latitude")) /\ Truthy(Member(value, "longitude"))
         THEN << [path |-> path, value |-> value] >>
    ELSE IF /\ value.kind = "object"
            /\ \A i \in 1..Len(value.m) : IsScalarOrNull(value.m[i][2])
            /\ Len(value.m) > 0
         THEN [i \in 1..Len(value.m) |->
                  [path |-> path \o <<".", value.m[i][1]>>, value |-> value.m[i][2]]]
    ELSE << [path |-> path, value |-> value] >>

\* update.source: an object {src, label, type}, a bare string, or missing
SourceObj(src, label, type) == [kind |-> "object", src |-> src, label |-> label, type |-> type]
SourceStr(str) == [kind |-> "string", src |-> str, label |-> str, type |-> <<>>]
NoSource == [kind |-> "object", src |-> <<>>, label |-> <<>>, type |-> <<>>]

SourceIdOf(source) ==
    IF source.src # <<>> THEN source.src
    ELSE IF source.label # <<>> THEN source.label
    ELSE <<"unknown">>

SourceLabelOf(source) ==
    IF source.label # <<>> THEN source.label ELSE <<"N2K Source ">> \o SourceIdOf(source)

SensorKey_PathOnly(sourceId, expandedPath) == expandedPath

\* `${sourceId}_${expandedPath}`
SensorKey(sourceId, expandedPath) == sourceId \o <<"_">> \o expandedPath

\* mqttClient.client is created by mqttClient.connect() while index.js loads,
\* before any telemetry event can be delivered
MqttClientAtRuntime == "client"

\* MQTTClient.publish throws when no client was created; otherwise the
\* message is handed to the library and a failure arrives by callback
publishThrows(client) == client = "null"

DropsBatch_Never(ready) == FALSE

\* if (!deviceRegistryReady) return
DropsBatch(ready) == ~ready

IsDisabled_Never(sensorConfig) == FALSE

\* if (sensorConfig.enabled === false) return
IsDisabled(sensorConfig) == sensorConfig.enabled = FALSE

NeedsDiscovery_Never(disc, sensorKey) == FALSE

\* if (!discoveredSensors.has(sensorKey))
NeedsDiscovery(disc, sensorKey) == sensorKey \notin disc

MarkDiscovered_Forget(disc, sensorKey) == disc

\* discoveredSensors.add(sensorKey)
MarkDiscovered(disc, sensorKey) == disc \cup {sensorKey}

\* lastPublishTime.get(publishKey) || 0
LastPublishOf(last, publishKey) == Get(last, publishKey, 0)

ShouldPublish_Always(clock, lastPublish) == TRUE

\* now - lastPublish >= PUBLISH_THROTTLE_MS
ShouldPublish(clock, lastPublish) == clock - lastPublish >= PUBLISH_THROTTLE_MS

\* lastPublishTime.set(publishKey, now)
RecordPublish(last, publishKey, clock) == Put(last, publishKey, clock)

\* one processed tuple: when it arrived, whether it threw, how many discovery
\* and state publications were issued while it was processed, and the value
\* and meta it carried
Arrival(clock, threw, discoveries, states, value, meta) ==
    [at |-> clock, threw |-> threw, discoveries |-> discoveries, states |-> states,
     value |-> value, meta |-> meta]

RECURSIVE TotalLen(_, _)
TotalLen(log, keys) ==
    IF keys = {} THEN 0
    ELSE LET k == CHOOSE x \in keys : TRUE
         IN  Len(log[k]) + TotalLen(log, keys \ {k})

\* the number of publish calls made so far
Published(st) == TotalLen(st.discLog, DOMAIN st.discLog) + TotalLen(st.stateLog, DOMAIN st.stateLog)

PublishOn_Twice(log, pr, message) == Put(log, pr, Get(log, pr, <<>>) \o <<message, message>>)

\* mqttClient.publish(topic, message): one message handed to the broker
\* connection, logged under the pair the topic belongs to
PublishOn(log, pr, message) == Put(log, pr, Append(Get(log, pr, <<>>), message))

\* the first sight of a sensor key: publishDiscovery, then the key is added
\* to discoveredSensors; a throwing publish leaves the key out
DiscoverSensor(st, pr, sensorKey, payload, up) ==
    IF ~NeedsDiscovery(st.disc, sensorKey) THEN st
    ELSE IF publishThrows(MqttClientAtRuntime) THEN [st EXCEPT !.threw = TRUE]
    ELSE [st EXCEPT
            !.discLog = PublishOn(@, pr, [ payload |-> payload, failed |-> ~up,
                                           seq |-> Published(st) + 1 ]),
            !.disc = MarkDiscovered(@, sensorKey)]

\* the throttle test, then the converted value is published on the state
\* topic and the publish time recorded; conv is convertValue's result
PublishState(st, pr, sensorKey, value, conv, clock, up) ==
    IF st.threw \/ ~ShouldPublish(clock, LastPublishOf(st.last, sensorKey)) THEN st
    ELSE IF conv.threw \/ publishThrows(MqttClientAtRuntime)
    THEN [st EXCEPT
            !.threw = TRUE,
            !.cache = conv.cache,
            !.conv = <<[value |-> value, threw |-> conv.threw, out |-> conv.out]>>]
    ELSE [st EXCEPT
            !.cache = conv.cache,
            !.conv = <<[value |-> value, threw |-> conv.threw, out |-> conv.out]>>,
            !.stateLog = PublishOn(@, pr, [ at |-> clock, out |-> conv.out, failed |-> ~up,
                                            seq |-> Published(st) + 1 ]),
            !.last = RecordPublish(@, sensorKey, clock)]

\* the arrival of the tuple is logged with the publications it caused
RecordArrival(before, pr, clock, value, meta, after) ==
    [after EXCEPT
        !.arrivals = Put(@, pr, Append(Get(@, pr, <<>>),
                        Arrival(clock, after.threw,
                                Len(Get(after.discLog, pr, <<>>)) - Len(Get(before.discLog, pr, <<>>)),
                                Len(Get(after.stateLog, pr, <<>>)) - Len(Get(before.stateLog, pr, <<>>)),
                                value, meta)))]

ConvertAndPublish_Stale(st, pr, sensorKey, sensorConfig, path, value, meta, clock, raw, up) ==
    PublishState(st, pr, sensorKey, value,
                 IF st.conv = <<>>
                 THEN convertValue(raw, st.cache, path, value, sensorConfig, meta)
                 ELSE [convertValue(raw, st.cache, path, value, sensorConfig, meta)
                          EXCEPT !.out = st.conv[1].out],
                 clock, up)

\* the tuple of an enabled sensor, st being the state after discovery
ConvertAndPublish(st, pr, sensorKey, sensorConfig, path, value, meta, clock, raw, up) ==
    PublishState(st, pr, sensorKey, value,
                 convertValue(raw, st.cache, path, value, sensorConfig, meta), clock, up)

\* the tuple once its sensor configuration is resolved
ProcessConfigured(st, source, pr, sensorKey, sensorConfig, path, value, meta, clock, raw, devs, up) ==
    IF IsDisabled(sensorConfig)
    THEN [st EXCEPT !.handled = @ + 1, !.skipped = @ + 1]
    ELSE RecordArrival(st, pr, clock, value, meta,
             ConvertAndPublish(
                 DiscoverSensor([st EXCEPT !.handled = @ + 1], pr, sensorKey,
                                DiscoveryPayload(raw, devs, path, sensorConfig, pr[1],
                                                 SourceLabelOf(source), source, meta),
                                up),
                 pr, sensorKey, sensorConfig, path, value, meta, clock, raw, up))

\* the body of pathsToProcess.forEach for one flattened tuple; st.threw means
\* an exception is propagating to the handler's catch
ProcessTuple(st, source, path, value, meta, clock, raw, devs, up) ==
    IF st.threw THEN st
    ELSE ProcessConfigured(st, source, <<SourceIdOf(source), path>>,
                           SensorKey(SourceIdOf(source), path),
                           getSensorConfig(path, value),
                           path, value, meta, clock, raw, devs, up)

\* env: the clock reading, config.rawMode, the registry's devices and whether
\* the broker accepts publications, all fixed during one batch
RECURSIVE ProcessExpanded(_, _, _, _, _)
ProcessExpanded(st, source, expanded, meta, env) ==
    IF expanded = <<>> THEN st
    ELSE ProcessExpanded(
             ProcessTuple(st, source, Head(expanded).path, Head(expanded).value,
                          meta, env.clock, env.raw, env.devs, env.up),
             source, Tail(expanded), meta, env)

RECURSIVE ProcessValues(_, _, _, _)
ProcessValues(st, source, values, env) ==
    IF values = <<>> THEN st
    ELSE ProcessValues(
             ProcessExpanded(st, source,
                             expandObjectPaths(Head(values).path, Head(values).value),
                             Head(values).meta, env),
             source, Tail(values), env)

\* if (!update.values || update.values.length === 0) return
SkipsUpdate(update) == ~update.hasValues \/ update.values = <<>>

ProcessUpdate_AbortOnMissing(st, update, env) ==
    IF st.threw THEN st
    ELSE IF SkipsUpdate(update) THEN [st EXCEPT !.threw = TRUE]
    ELSE ProcessValues(st, update.source, update.values, env)

\* the body of data.updates.forEach for one update
ProcessUpdate(st, update, env) ==
    IF st.threw THEN st
    ELSE IF SkipsUpdate(update) THEN st
    ELSE ProcessValues(st, update.source, update.values, env)

RECURSIVE ProcessUpdates(_, _, _)
ProcessUpdates(st, updates, env) ==
    IF updates = <<>> THEN st
    ELSE ProcessUpdates(ProcessUpdate(st, Head(updates), env), Tail(updates), env)

\* ------------------------------------------------------------------------
\* Inputs: the delta messages the telemetry server sends
\* ------------------------------------------------------------------------
Entry(path, value, meta) == [path |-> path, value |-> value, meta |-> meta]
Update(source, values) == [source |-> source, values |-> values, hasValues |-> TRUE]
\* an update that has no `values` member
UpdateWithoutValues(source) == [source |-> source, values |-> <<>>, hasValues |-> FALSE]

Src1 == SourceObj(<<"1">>, <<>>, <<>>)
Src2 == SourceObj(<<"2">>, <<>>, <<>>)
\* string sources, "n2k" and "n2k_tanks"
SrcN2k == SourceStr(<<"n2k">>)
SrcN2kTanks == SourceStr(<<"n2k", "_", "tanks">>)

TempK == Entry(PathTemp, Num(29315), Meta("K"))
TempNaN == Entry(PathTemp, NaN, Meta("K"))
TempNull == Entry(PathTemp, Null, NoMeta)
DateInf == Entry(PathDate, Infinity, NoMeta)
DateOk == Entry(PathDate, Str(ValidDateString), NoMeta)
LogNum == Entry(PathLog, Num(1200), NoMeta)

\* values of navigation.position
Position(lat, lon) == Obj(<< <<"latitude", lat>>, <<"longitude", lon>> >>)
PosFix == Entry(PathPos, Position(Num(5012), Num(-530)), NoMeta)
PosEquator == Entry(PathPos, Position(Num(0), Num(-530)), NoMeta)
PosNull == Entry(PathPos, Null, NoMeta)

\* values of navigation.attitude: an object of scalars and the shapes that
\* are not expanded
Composite == Obj(<< <<"yaw", Num(157)>>, <<"label", Str("imu")>>, <<"roll", Null>> >>)
Nested == Obj(<< <<"yaw", Num(157)>>, <<"limits", Obj(<<>>)>> >>)
List == Arr(<< <<"0", Num(157)>>, <<"1", Num(-3)>> >>)
AttComposite == Entry(PathAtt, Composite, Meta("rad"))
AttEmpty == Entry(PathAtt, Obj(<<>>), Meta("rad"))
AttNested == Entry(PathAtt, Nested, Meta("rad"))
AttList == Entry(PathAtt, List, Meta("rad"))
AttNull == Entry(PathAtt, Null, Meta("rad"))

\* A scenario fixes what one run is fed with: the batches the telemetry
\* server may send, the clock advances between two deltas, config.rawMode
\* and whether the broker accepts publications.
Scenario(name, batches, elapsed, raw, up) ==
    [name |-> name, batches |-> batches, elapsed |-> elapsed, rawMode |-> raw, brokerUp |-> up]

Scenarios ==
    { Scenario("two sources",
               { << Update(Src1, <<TempK>>) >>,
                 << Update(Src2, <<TempK>>) >>,
                 << Update(Src1, <<TempK>>), Update(Src2, <<TempK>>) >>,
                 << Update(Src1, <<TempK, TempK>>) >> },
               {200, 1000, 1200}, FALSE, TRUE),
      Scenario("failing tuple",
               { << Update(Src1, <<DateInf, TempK>>) >>,
                 << Update(Src1, <<DateInf>>), Update(Src2, <<TempK>>) >>,
                 << Update(Src1, <<DateOk>>) >>,
                 << Update(Src1, <<TempNaN>>) >> },
               {1000}, FALSE, TRUE),
      Scenario("disabled sensor",
               { << Update(Src1, <<LogNum>>) >>,
                 << Update(Src2, <<LogNum, TempK>>) >>,
                 <<>>,
                 << Update(Src1, <<>>) >>,
                 << UpdateWithoutValues(Src1), Update(Src2, <<TempK>>) >> },
               {200, 1000}, FALSE, TRUE),
      Scenario("broker down",
               { << Update(Src1, <<TempK>>) >>,
                 << Update(Src1, <<TempNull>>) >> },
               {200, 1000}, FALSE, FALSE),
      Scenario("composite",
               { << Update(Src1, <<AttComposite>>) >>,
                 << Update(Src2, <<AttComposite>>) >>,
                 << Update(Src1, <<AttEmpty, AttNested>>) >>,
                 << Update(Src1, <<AttList, AttNull>>) >> },
               {1000}, TRUE, TRUE),
      Scenario("named sources",
               { << Update(SrcN2k, <<Entry(PathTanksFuel, Num(50), NoMeta)>>) >>,
                 << Update(SrcN2kTanks, <<Entry(PathFuel, Num(75), NoMeta)>>) >>,
                 << Update(SrcN2k, <<Entry(PathTanksDotFuel, Num(25), NoMeta)>>) >>,
                 << Update(SrcN2k, <<Entry(PathTanksFuel, Num(50), NoMeta)>>),
                    Update(SrcN2kTanks, <<Entry(PathFuel, Num(75), NoMeta)>>) >> },
               {1000}, FALSE, TRUE),
      Scenario("position",
               { << Update(Src1, <<PosFix>>) >>,
                 << Update(Src1, <<PosEquator>>) >>,
                 << Update(Src1, <<PosNull>>) >> },
               {1000}, FALSE, TRUE),
      Scenario("raw mode",
               { << Update(Src1, <<TempK>>) >>,
                 << Update(Src1, <<TempNaN>>) >>,
                 << Update(Src1, <<DateInf>>) >> },
               {1000}, TRUE, TRUE) }

RECURSIVE FlattenValues(_)
FlattenValues(values) ==
    IF values = <<>> THEN <<>>
    ELSE expandObjectPaths(Head(values).path, Head(values).value) \o FlattenValues(Tail(values))

RECURSIVE CountTuples(_)
\* the number of flattened tuples of a batch
CountTuples(updates) ==
    IF updates = <<>> THEN 0
    ELSE Len(FlattenValues(Head(updates).values)) + CountTuples(Tail(updates))

RECURSIVE CountValueless(_)
\* the number of updates of a batch that have no `values` member
CountValueless(updates) ==
    IF updates = <<>> THEN 0
    ELSE (IF Head(updates).hasValues THEN 0 ELSE 1) + CountValueless(Tail(updates))

\* ------------------------------------------------------------------------
\* State
\* ------------------------------------------------------------------------
VARIABLES
    scenario,             \* what this run is fed with
    now,                  \* the latest Date.now() reading
    ws,                   \* the latest socket: "connecting", "open", "closing" or "closed"
    reconnectTimer,       \* SignalKClient.reconnectTimer: "null", "pending" or "fired"
    shouldReconnect,      \* SignalKClient.shouldReconnect
    subscribed,           \* the subscription was sent on the latest socket
    fetches,              \* one record per fetchDevices() call
    devices,              \* DeviceRegistry.devices
    deviceRegistryReady,
    discoveredSensors,
    lastPublishTime,
    tempTransformCache,
    deltas,               \* delta events delivered so far
    discLog,              \* <<sourceId, path>> -> discovery publications [payload, failed, seq]
    stateLog,             \* <<sourceId, path>> -> state publications [at, out, failed, seq]
    arrivals,             \* <<sourceId, path>> -> its processed tuples, see Arrival
    lastDelta,            \* what the latest delta event did
    lastCall              \* the latest direct call of a converter or normalizer function

clientVars == <<ws, reconnectTimer, shouldReconnect, subscribed>>
registryVars == <<fetches, devices, deviceRegistryReady>>
pipelineVars == <<discoveredSensors, lastPublishTime, tempTransformCache>>
logVars == <<discLog, stateLog, arrivals, lastDelta, lastCall>>
vars == <<scenario, now, clientVars, registryVars, pipelineVars, deltas, logVars>>

DeltaSummary(outcome, tuples, valueless, handled, skipped, conv) ==
    [outcome |-> outcome, tuples |-> tuples, valueless |-> valueless, handled |-> handled,
     skipped |-> skipped, conv |-> conv]

Call(fn, path, value, meta, config, threw, out, tuples, payload) ==
    [fn |-> fn, path |-> path, value |-> value, meta |-> meta, config |-> config,
     threw |-> threw, out |-> out, tuples |-> tuples, payload |-> payload]
NoCall == Call("none", <<>>, Null, NoMeta, Config(TRUE, <<>>, "", "", ""), FALSE,
               Payload("none", 0, "", <<>>), <<>>, <<>>)

Fetch(http, timer, settled) == [http |-> http, timer |-> timer, settled |-> settled]

InitAt(clocks) ==
    /\ scenario \in Scenarios
    /\ now \in clocks
    /\ ws = "connecting"
    /\ reconnectTimer = "null"
    /\ shouldReconnect = TRUE
    /\ subscribed = FALSE
    /\ fetches = <<>>
    /\ devices = <<>>
    /\ deviceRegistryReady = FALSE
    /\ discoveredSensors = {}
    /\ lastPublishTime = <<>>
    /\ tempTransformCache = <<>>
    /\ deltas = 0
    /\ discLog = <<>>
    /\ stateLog = <<>>
    /\ arrivals = <<>>
    /\ lastDelta = DeltaSummary("none", 0, 0, 0, 0, <<>>)
    /\ lastCall = NoCall

Init == InitAt({StartClock})

\* ------------------------------------------------------------------------
\* SignalKClient and the 'connected' handler of index.js
\* ------------------------------------------------------------------------
\* ws 'open': emit 'connected' -> initializeDeviceRegistry -> fetchDevices
\* sends the request and arms its 10 s timer; then subscribe('vessels.self.*')
\* sends the subscription on the socket that has just opened
WsOpen ==
    /\ ws = "connecting"
    /\ Len(fetches) < MaxFetches
    /\ ws' = "open"
    /\ subscribed' = TRUE
    /\ fetches' = Append(fetches, Fetch("pending", TRUE, FALSE))
    /\ UNCHANGED <<scenario, now, reconnectTimer, shouldReconnect, devices, deviceRegistryReady,
                   pipelineVars, deltas, logVars>>

scheduleReconnect_Never(timer) == timer

\* scheduleReconnect(): a timer that is set is cleared, then a new one is
\* armed for reconnectInterval
scheduleReconnect(timer) == "pending"

\* ws 'close': emit 'disconnected', then scheduleReconnect() if
\* shouldReconnect
WsClose ==
    /\ ws \in {"connecting", "open", "closing"}
    /\ ws' = "closed"
    /\ reconnectTimer' = IF shouldReconnect THEN scheduleReconnect(reconnectTimer)
                         ELSE reconnectTimer
    /\ UNCHANGED <<scenario, now, shouldReconnect, subscribed, registryVars, pipelineVars,
                   deltas, logVars>>

\* the reconnect timer fires: connect() creates a new socket; the field
\* keeps the handle of the timer that fired
ReconnectTimeout ==
    /\ reconnectTimer = "pending"
    /\ ws' = "connecting"
    /\ subscribed' = FALSE
    /\ reconnectTimer' = "fired"
    /\ UNCHANGED <<scenario, now, shouldReconnect, registryVars, pipelineVars, deltas, logVars>>

clearReconnectTimer_Keep(timer) == timer

\* if (this.reconnectTimer) { clearTimeout(this.reconnectTimer); this.reconnectTimer = null }
clearReconnectTimer(timer) == IF timer # "null" THEN "null" ELSE timer

\* disconnect(): shouldReconnect = false, the timer is cleared, the socket is
\* asked to close (its 'close' event follows) and the field ws is dropped
Disconnect ==
    /\ shouldReconnect' = FALSE
    /\ reconnectTimer' = clearReconnectTimer(reconnectTimer)
    /\ ws' = IF ws \in {"connecting", "open"} THEN "closing" ELSE ws
    /\ UNCHANGED <<scenario, now, subscribed, registryVars, pipelineVars, deltas, logVars>>

\* ------------------------------------------------------------------------
\* DeviceRegistry.fetchDevices and initializeDeviceRegistry
\* ------------------------------------------------------------------------
\* the promise of fetch i settles (resolve or reject; a second settlement is
\* ignored); initializeDeviceRegistry's finally then sets deviceRegistryReady
Settle(fs, i) == [fs EXCEPT ![i].settled = TRUE]
ReadyAfter(i) == deviceRegistryReady \/ ~fetches[i].settled

\* http.get callback: the response headers arrived, clearTimeout(timeout)
HttpResponse(i) ==
    /\ fetches[i].http = "pending"
    /\ fetches' = [fetches EXCEPT ![i].http = "receiving", ![i].timer = FALSE]
    /\ UNCHANGED <<scenario, now, clientVars, devices, deviceRegistryReady,
                   pipelineVars, deltas, logVars>>

\* res 'end': JSON.parse, parseDevices, resolve (also when parsing fails)
HttpEnd(i, body) ==
    /\ fetches[i].http = "receiving"
    /\ devices' = IF body.parsable THEN parseDevices(devices, body) ELSE devices
    /\ fetches' = Settle([fetches EXCEPT ![i].http = "closed"], i)
    /\ deviceRegistryReady' = ReadyAfter(i)
    /\ UNCHANGED <<scenario, now, clientVars, pipelineVars, deltas, logVars>>

\* request 'error': clearTimeout(timeout), resolve
HttpError(i) ==
    /\ fetches[i].http = "pending"
    /\ fetches' = Settle([fetches EXCEPT ![i].http = "closed", ![i].timer = FALSE], i)
    /\ deviceRegistryReady' = ReadyAfter(i)
    /\ UNCHANGED <<scenario, now, clientVars, devices, pipelineVars, deltas, logVars>>

\* the 10 s timer fires: reject; the request itself is not aborted
FetchTimeout(i) ==
    /\ i \in 1..Len(fetches)
    /\ fetches[i].timer
    /\ fetches' = Settle([fetches EXCEPT ![i].timer = FALSE], i)
    /\ deviceRegistryReady' = ReadyAfter(i)
    /\ UNCHANGED <<scenario, now, clientVars, devices, pipelineVars, deltas, logVars>>

\* ------------------------------------------------------------------------
\* signalKClient.on('delta')
\* ------------------------------------------------------------------------
StartOfBatch_FreshSet ==
    [ disc |-> {}, last |-> lastPublishTime, cache |-> tempTransformCache,
      discLog |-> discLog, stateLog |-> stateLog, arrivals |-> arrivals,
      threw |-> FALSE, handled |-> 0, skipped |-> 0, conv |-> <<>> ]

\* the handler works on the module-level collections
StartOfBatch ==
    [ disc |-> discoveredSensors, last |-> lastPublishTime, cache |-> tempTransformCache,
      discLog |-> discLog, stateLog |-> stateLog, arrivals |-> arrivals,
      threw |-> FALSE, handled |-> 0, skipped |-> 0, conv |-> <<>> ]

\* the handler up to its catch: the registry check, the shape check, then
\* every update, value and expanded tuple in order
HandleDelta(updates, clock) ==
    IF DropsBatch(deviceRegistryReady) THEN StartOfBatch
    ELSE IF updates = <<>> THEN StartOfBatch
    ELSE ProcessUpdates(StartOfBatch, updates,
             [clock |-> clock, raw |-> scenario.rawMode, devs |-> devices,
              up |-> scenario.brokerUp])

Outcome(updates, st) ==
    IF DropsBatch(deviceRegistryReady) THEN "dropped"
    ELSE IF updates = <<>> THEN "empty"
    ELSE IF st.threw THEN "aborted"
    ELSE "processed"

\* the collections the handler leaves behind, and the summary of the batch
Commit(updates, st) ==
    /\ discoveredSensors' = st.disc
    /\ lastPublishTime' = st.last
    /\ tempTransformCache' = st.cache
    /\ discLog' = st.discLog
    /\ stateLog' = st.stateLog
    /\ arrivals' = st.arrivals
    /\ lastDelta' = DeltaSummary(Outcome(updates, st), CountTuples(updates),
                                 CountValueless(updates), st.handled, st.skipped, st.conv)

\* a delta message arrives `elapsed` ms after the latest clock reading
Delta(updates, elapsed) ==
    /\ ws = "open"
    /\ deltas < MaxDeltas
    /\ deltas' = deltas + 1
    /\ now' = now + elapsed
    /\ Commit(updates, HandleDelta(updates, now + elapsed))
    /\ UNCHANGED <<scenario, clientVars, registryVars, lastCall>>

Next ==
    \/ WsOpen
    \/ WsClose
    \/ ReconnectTimeout
    \/ \E i \in 1..Len(fetches) : HttpResponse(i)
    \/ \E i \in 1..Len(fetches), body \in Bodies : HttpEnd(i, body)
    \/ \E i \in 1..Len(fetches) : HttpError(i)
    \/ \E i \in 1..Len(fetches) : FetchTimeout(i)
    \/ \E updates \in scenario.batches, elapsed \in scenario.elapsed : Delta(updates, elapsed)

Spec == Init /\ [][Next]_vars

\* timers that are armed fire; what the network delivers is up to the network
Fairness ==
    /\ \A i \in 1..MaxFetches : WF_vars(FetchTimeout(i))
    /\ WF_vars(ReconnectTimeout)

FairSpec == Spec /\ Fairness

\* the same program under a clock that reads less than the throttle window
\* (a host whose clock was never set counts from the epoch)
EarlyClock == 500
ClockSpec == InitAt({EarlyClock}) /\ [][Next]_vars

\* the client as an object whose owner may call disconnect() at any time
ClientNext ==
    \/ Next
    \/ Disconnect

ClientSpec == Init /\ [][ClientNext]_vars

\* ------------------------------------------------------------------------
\* The converter, the normalizer and the discovery emitter called directly
\* ------------------------------------------------------------------------
Attitude == Obj(<< <<"yaw", Num(157)>>, <<"pitch", Num(-3)>>, <<"label", Str("imu")>>,
                   <<"valid", Bool(TRUE)>>, <<"roll", Null>> >>)

\* what each function is called with
ConfigPaths == {PathTemp, PathDate, PathLog, PathPos, PathAtt, PathBat0, PathBat1,
                PathSolar, PathBatCurrent, PathBatJoined}
ConfigValues == {Num(1250), Bool(TRUE)}

ConvertPaths == {PathTemp, PathDate, PathBat0, PathPos}
ConvertValues ==
    { Num(29315), Num(6804), Num(1234), Infinity, Null, Str(ValidDateString),
      Position(Num(5012), Num(-530)) }

ExpandPaths == {PathPos, PathAtt, PathTemp}
ExpandValues ==
    { Num(29315), Null, Undefined, Str(ValidDateString),
      Position(Num(5012), Num(-530)), Position(Num(0), Num(-530)), Position(Num(5012), Num(0)),
      Attitude, Obj(<<>>), Arr(<< <<"0", Num(1)>>, <<"1", Num(2)>> >>),
      Obj(<< <<"yaw", Num(157)>>, <<"limits", Obj(<<>>)>> >>) }

DiscoveryPaths == {PathTemp, PathPos, PathBat0, PathBatCurrent}
UnitMetas == {NoMeta, Meta("K"), Meta("F")}

UnitFrame ==
    UNCHANGED <<scenario, now, clientVars, registryVars, discoveredSensors, lastPublishTime,
                deltas, discLog, stateLog, arrivals, lastDelta>>

\* sensorConverter.convertValue(path, value, getSensorConfig(path, value), meta)
CallConvertValue(path, value, meta) ==
    LET sensorConfig == getSensorConfig(path, value)
        r == convertValue(scenario.rawMode, tempTransformCache, path, value, sensorConfig, meta)
    IN  /\ tempTransformCache' = r.cache
        /\ lastCall' = Call("convertValue", path, value, meta, sensorConfig, r.threw, r.out,
                            <<>>, <<>>)
        /\ UnitFrame

\* sensorConverter.getSensorConfig(path, value)
CallGetSensorConfig(path, value) ==
    /\ lastCall' = Call("getSensorConfig", path, value, NoMeta, getSensorConfig(path, value),
                        FALSE, Payload("none", 0, "", <<>>), <<>>, <<>>)
    /\ UNCHANGED tempTransformCache
    /\ UnitFrame

\* expandObjectPaths(path, value)
CallExpandObjectPaths(path, value) ==
    /\ lastCall' = Call("expandObjectPaths", path, value, NoMeta, getSensorConfig(path, value),
                        FALSE, Payload("none", 0, "", <<>>), expandObjectPaths(path, value), <<>>)
    /\ UNCHANGED tempTransformCache
    /\ UnitFrame

\* haDiscovery.publishDiscovery(path, getSensorConfig(path, value), '1', ..., meta)
CallPublishDiscovery(path, value, meta) ==
    LET sensorConfig == getSensorConfig(path, value)
    IN  /\ lastCall' = Call("publishDiscovery", path, value, meta, sensorConfig, FALSE,
                            Payload("none", 0, "", <<>>), <<>>,
                            << DiscoveryPayload(scenario.rawMode, devices, path, sensorConfig,
                                   SourceIdOf(Src1), SourceLabelOf(Src1), Src1, meta) >>)
        /\ UNCHANGED tempTransformCache
        /\ UnitFrame

UnitInit == InitAt({StartClock}) /\ scenario.name \in {"two sources", "raw mode"}

UnitNext ==
    \/ \E path \in ConvertPaths, value \in ConvertValues, meta \in UnitMetas :
           CallConvertValue(path, value, meta)
    \/ \E path \in ConfigPaths, value \in ConfigValues : CallGetSensorConfig(path, value)
    \/ \E path \in ExpandPaths, value \in ExpandValues : CallExpandObjectPaths(path, value)
    \/ \E path \in DiscoveryPaths, meta \in UnitMetas :
           CallPublishDiscovery(path, Num(1250), meta)

UnitSpec == UnitInit /\ [][UnitNext]_vars

\* ------------------------------------------------------------------------
\* Properties
\* ------------------------------------------------------------------------
Pairs == SourceIds \X Paths
KeyOf(pr) == SensorKey(pr[1], pr[2])
ArrivalsOf(pr) == Get(arrivals, pr, <<>>)
DiscoveriesOf(pr) == Get(discLog, pr, <<>>)
StatesOf(pr) == Get(stateLog, pr, <<>>)

RECURSIVE CountDiscoveries(_, _)
\* discovery publications issued for a SensorKey, over the pairs prs
CountDiscoveries(key, prs) ==
    IF prs = {} THEN 0
    ELSE LET pr == CHOOSE x \in prs : TRUE
         IN  (IF KeyOf(pr) = key THEN Len(DiscoveriesOf(pr)) ELSE 0)
             + CountDiscoveries(key, prs \ {pr})

\* C1: once a tuple of an enabled (source, path) has been processed, exactly
\* one discovery publication has been issued for its SensorKey, and no
\* SensorKey ever has more than one, whatever deltas and reconnects follow.
C1_DiscoveryOnce ==
    \A pr \in Pairs :
        /\ CountDiscoveries(KeyOf(pr), Pairs) <= 1
        /\ ArrivalsOf(pr) # <<>> => CountDiscoveries(KeyOf(pr), Pairs) = 1

\* the same key processed in two deltas, the second after a reconnect
C1_Witness ==
    /\ Len(fetches) = 2
    /\ ws = "open"
    /\ \E pr \in Pairs : Len(ArrivalsOf(pr)) >= 2 /\ Len(DiscoveriesOf(pr)) = 1

\* C2: consecutive state publications of a (source, path) are at least the
\* throttle window apart; two converted updates of a pair that arrive 200 ms
\* apart yield one state publication, two that arrive 1200 ms apart yield two.
Converted(pr) == \A i \in 1..Len(ArrivalsOf(pr)) : ~ArrivalsOf(pr)[i].threw
Gap(pr) == ArrivalsOf(pr)[2].at - ArrivalsOf(pr)[1].at

C2_Throttling ==
    \A pr \in Pairs :
        /\ \A i \in 1..(Len(StatesOf(pr)) - 1) :
               StatesOf(pr)[i + 1].at - StatesOf(pr)[i].at >= 1000
        /\ Len(ArrivalsOf(pr)) = 2 /\ Converted(pr) /\ Gap(pr) = 200
               => Len(StatesOf(pr)) = 1
        /\ Len(ArrivalsOf(pr)) = 2 /\ Converted(pr) /\ Gap(pr) = 1200
               => Len(StatesOf(pr)) = 2

\* a pair updated twice 200 ms apart, the second update suppressed
C2_Witness ==
    \E pr \in Pairs :
        /\ Len(ArrivalsOf(pr)) = 2 /\ Converted(pr) /\ Gap(pr) = 200
        /\ Len(StatesOf(pr)) = 1 /\ StatesOf(pr)[1].at = ArrivalsOf(pr)[1].at

\* a pair updated twice 1200 ms apart, both updates published
C2_BothPublished ==
    \E pr \in Pairs :
        /\ Len(ArrivalsOf(pr)) = 2 /\ Converted(pr) /\ Gap(pr) = 1200
        /\ Len(StatesOf(pr)) = 2

\* C3: a path whose resolved config has enabled = false never gets a
\* discovery or a state publication, and a batch made only of such tuples
\* leaves DiscoveryState, ThrottleState and the publications unchanged.
DisabledPath(path) == getSensorConfig(path, Null).enabled = FALSE

C3_DisabledSensor ==
    /\ [](\A pr \in Pairs : DisabledPath(pr[2]) =>
              /\ DiscoveriesOf(pr) = <<>>
              /\ StatesOf(pr) = <<>>
              /\ KeyOf(pr) \notin discoveredSensors
              /\ KeyOf(pr) \notin DOMAIN lastPublishTime)
    /\ [][(deltas' # deltas /\ lastDelta'.tuples > 0
             /\ lastDelta'.skipped = lastDelta'.tuples)
          => UNCHANGED <<discoveredSensors, lastPublishTime, discLog, stateLog>>]_vars

\* a batch with a disabled tuple was processed
C3_Witness ==
    /\ lastDelta.outcome = "processed"
    /\ lastDelta.skipped >= 1
    /\ lastDelta.handled = lastDelta.tuples

\* C4: no step taken while deviceRegistryReady is false, a delta or the step
\* that makes the registry ready, changes DiscoveryState, ThrottleState or
\* the publications: a batch received during warm-up is dropped for good.
C4_WarmupDrop ==
    [][~deviceRegistryReady =>
          UNCHANGED <<discoveredSensors, lastPublishTime, tempTransformCache,
                      discLog, stateLog, arrivals>>]_vars

\* a non-empty batch was dropped and the registry became ready afterwards
C4_Witness ==
    /\ lastDelta.outcome = "dropped"
    /\ lastDelta.tuples > 0
    /\ deviceRegistryReady
    /\ discLog = <<>> /\ stateLog = <<>>

\* C5: a failure in one flattened tuple abandons only that tuple: every
\* tuple of a batch that passed the registry check is handled.
C5_FailureIsolation ==
    lastDelta.outcome \in {"processed", "aborted"} => lastDelta.handled = lastDelta.tuples

\* C6: a SensorKey whose latest discovery publication failed is not in
\* DiscoveryState, and a later processed tuple of that key publishes the
\* discovery again.
C6_DiscoveryRetry ==
    \A pr \in Pairs :
        LET d == DiscoveriesOf(pr)
        IN  /\ d # <<>> /\ d[Len(d)].failed => KeyOf(pr) \notin discoveredSensors
            /\ d # <<>> /\ d[1].failed /\ Len(ArrivalsOf(pr)) >= 2 => Len(d) >= 2

\* C7: once the telemetry connection has opened and the registry fetch has
\* started, deviceRegistryReady eventually becomes true.
C7_RegistryReady == (Len(fetches) > 0) ~> deviceRegistryReady

\* C8: the first processed update of a pair whose conversion does not throw
\* is published and recorded in ThrottleState, whatever the clock reads.
C8_FirstPublish ==
    \A pr \in Pairs :
        ArrivalsOf(pr) # <<>> /\ ~ArrivalsOf(pr)[1].threw
            => /\ StatesOf(pr) # <<>>
               /\ StatesOf(pr)[1].at = ArrivalsOf(pr)[1].at
               /\ KeyOf(pr) \in DOMAIN lastPublishTime

\* C9: two sources reporting the same path are distinct sensors: each
\* processed pair has a discovery publication of its own with its own
\* identity and state topic, its first converted update is published
\* whatever the other source did, and a step that processes no tuple of a
\* pair leaves that pair's DiscoveryState membership, ThrottleState entry
\* and publications as they were.
SameKeyState(pr) ==
    /\ (KeyOf(pr) \in discoveredSensors') = (KeyOf(pr) \in discoveredSensors)
    /\ Get(lastPublishTime', KeyOf(pr), 0) = Get(lastPublishTime, KeyOf(pr), 0)
    /\ Get(discLog', pr, <<>>) = DiscoveriesOf(pr)
    /\ Get(stateLog', pr, <<>>) = StatesOf(pr)

C9_SourceIndependence ==
    /\ [](\A pr \in Pairs :
              /\ ArrivalsOf(pr) # <<>> => Len(DiscoveriesOf(pr)) = 1
              /\ Len(ArrivalsOf(pr)) = 1 /\ Converted(pr) => Len(StatesOf(pr)) = 1
              /\ \A qr \in Pairs :
                     pr # qr /\ DiscoveriesOf(pr) # <<>> /\ DiscoveriesOf(qr) # <<>>
                         => /\ KeyOf(pr) # KeyOf(qr)
                            /\ DiscoveriesOf(pr)[1].payload.unique_id
                                   # DiscoveriesOf(qr)[1].payload.unique_id
                            /\ DiscoveriesOf(pr)[1].payload.state_topic
                                   # DiscoveriesOf(qr)[1].payload.state_topic)
    /\ [][\A pr \in Pairs :
              Get(arrivals', pr, <<>>) = ArrivalsOf(pr) => SameKeyState(pr)]_vars

\* both sources reported the water temperature in one batch and each has its
\* discovery and its state publication
C9_Witness ==
    /\ lastDelta.outcome = "processed"
    /\ lastDelta.tuples = 2
    /\ \A sid \in SourceIds :
           /\ Len(DiscoveriesOf(<<sid, PathTemp>>)) = 1
           /\ Len(StatesOf(<<sid, PathTemp>>)) = 1
           /\ StatesOf(<<sid, PathTemp>>)[1].at = now
           /\ KeyOf(<<sid, PathTemp>>) \in discoveredSensors

\* C10: the converter answers an absent or non-finite value with "unknown"
\* and does not throw, in raw and in normal mode.
C10_UnknownSentinel ==
    \A i \in 1..Len(lastDelta.conv) :
        LET c == lastDelta.conv[i]
        IN  Absent(c.value) \/ (IsNumberType(c.value) /\ ~isFinite(c.value))
                => ~c.threw /\ c.out = Unknown

\* C11: in normal mode the state payload of a finite temperature value is the
\* raw value with the transform implied by the tuple's own meta.units applied
\* once (and then rounded), also when the path was converted before.
TemperatureCall ==
    /\ lastCall.fn = "convertValue"
    /\ ~scenario.rawMode
    /\ isFinite(lastCall.value)
    /\ lastCall.config.deviceClass = "temperature"

Once(transform, call) ==
    Payload("number", smartRound(ApplyTransform(transform, call.value.n), call.path, call.config),
            "", <<>>)

C11_TransformOnce ==
    TemperatureCall => ~lastCall.threw /\ lastCall.out = Once(TransformOf(lastCall.meta), lastCall)

\* some transform was applied a single time: no payload is a transform of a
\* transformed value
C11_NeverTwice ==
    TemperatureCall => \E t \in {"K", "F", "identity"} : lastCall.out = Once(t, lastCall)

\* C12 as stated: a batch without updates, or with an update that has no
\* values, causes no publication and changes neither DiscoveryState nor
\* ThrottleState.
C12_BatchSkipped ==
    [][(deltas' # deltas /\ (lastDelta'.outcome = "empty" \/ lastDelta'.valueless > 0))
          => UNCHANGED <<discoveredSensors, lastPublishTime, discLog, stateLog>>]_vars

\* C12, amended: a batch without updates is skipped as a whole; an update
\* without values (absent or empty) is skipped on its own, and so a batch made
\* only of such updates changes nothing, while the other updates of its batch
\* are processed; the missing values raise no error.
ConversionThrew(summary) == summary.conv # <<>> /\ summary.conv[1].threw

C12_MalformedBatch ==
    /\ [][(deltas' # deltas /\ (lastDelta'.outcome = "empty" \/ lastDelta'.tuples = 0))
             => UNCHANGED <<discoveredSensors, lastPublishTime, tempTransformCache,
                            discLog, stateLog, arrivals>>]_vars
    /\ [](lastDelta.valueless > 0 /\ lastDelta.outcome # "dropped" /\ ~ConversionThrew(lastDelta)
             => lastDelta.outcome = "processed" /\ lastDelta.handled = lastDelta.tuples)
    /\ [](lastDelta.outcome \in {"empty", "processed"} /\ lastDelta.tuples = 0
             => lastDelta.handled = 0 /\ lastDelta.conv = <<>>)

\* a batch with an update that has no values was processed, and the tuple of
\* its other update was published
C12_Witness ==
    /\ lastDelta.outcome = "processed"
    /\ lastDelta.valueless = 1
    /\ lastDelta.tuples = 1 /\ lastDelta.handled = 1
    /\ StatesOf(<<SourceIdOf(Src2), PathTemp>>) # <<>>
    /\ ArrivalsOf(<<SourceIdOf(Src1), PathTemp>>) = <<>>

\* C13: a latitude/longitude object at a position path, whatever the two
\* numbers (zero included), is emitted as one tuple with the original path
\* and the whole pair.
PositionCall ==
    /\ lastCall.fn = "expandObjectPaths"
    /\ includes(lastCall.path, "position")
    /\ lastCall.value.kind = "object"
    /\ isFinite(Member(lastCall.value, "latitude"))
    /\ isFinite(Member(lastCall.value, "longitude"))

C13_PositionIntact ==
    PositionCall => lastCall.tuples = << [path |-> lastCall.path, value |-> lastCall.value] >>

\* C14: getSensorConfig answers with the exact-path entry when there is one,
\* even if wildcard entries declared before it match; otherwise with the
\* matching wildcard entry declared first; otherwise with the generated config.
ExactEntries(path) == {i \in 1..Len(ConfigSensors) : ConfigSensors[i][1] = path}
WildcardEntries(path) ==
    {i \in 1..Len(ConfigSensors) :
        includes(ConfigSensors[i][1], "*") /\ RegexTest(ConfigSensors[i][1], path)}
Lowest(idx) == CHOOSE i \in idx : \A j \in idx : i <= j

C14_ResolutionOrder ==
    lastCall.fn = "getSensorConfig" =>
        IF ExactEntries(lastCall.path) # {}
        THEN lastCall.config = ConfigSensors[Lowest(ExactEntries(lastCall.path))][2]
        ELSE IF WildcardEntries(lastCall.path) # {}
             THEN lastCall.config = ConfigSensors[Lowest(WildcardEntries(lastCall.path))][2]
        ELSE lastCall.config = autoGenerateConfig(lastCall.path, lastCall.value)

\* a path with an exact entry that two wildcard entries declared earlier
\* match as well was resolved to the exact entry
C14_Witness ==
    /\ lastCall.fn = "getSensorConfig"
    /\ lastCall.path = PathBat0
    /\ Cardinality(WildcardEntries(PathBat0)) = 2
    /\ \A i \in WildcardEntries(PathBat0) : i < Lowest(ExactEntries(PathBat0))
    /\ lastCall.config.name = <<"House", " ", "Battery">>

\* a path without exact entry that two wildcard entries match was resolved to
\* the one declared first
C14_FirstWildcardWins ==
    /\ lastCall.fn = "getSensorConfig"
    /\ lastCall.path = PathBat1
    /\ Cardinality(WildcardEntries(PathBat1)) = 2
    /\ lastCall.config.name = <<"Battery", " ", "Voltage">>

\* C15: a wildcard entry is chosen for a path only if the path has as many
\* dot-separated segments as the pattern and equals it at every segment that
\* is not "*", the "*" standing for one non-empty segment; and the first
\* entry that matches in this sense is the one chosen.
RECURSIVE Segments(_)
Segments(str) ==
    IF \A i \in 1..Len(str) : str[i] # "." THEN <<str>>
    ELSE LET d == CHOOSE i \in 1..Len(str) :
                      str[i] = "." /\ \A j \in 1..(i - 1) : str[j] # "."
         IN  <<SubSeq(str, 1, d - 1)>> \o Segments(SubSeq(str, d + 1, Len(str)))

SegmentMatch(pat, path) ==
    /\ Len(Segments(pat)) = Len(Segments(path))
    /\ \A k \in 1..Len(Segments(pat)) :
           IF Segments(pat)[k] = <<"*">> THEN Segments(path)[k] # <<>>
           ELSE Segments(pat)[k] = Segments(path)[k]

SegmentEntries(path) ==
    {i \in 1..Len(ConfigSensors) :
        includes(ConfigSensors[i][1], "*") /\ SegmentMatch(ConfigSensors[i][1], path)}

C15_WildcardMatching ==
    lastCall.fn = "getSensorConfig" /\ ExactEntries(lastCall.path) = {} =>
        IF SegmentEntries(lastCall.path) # {}
        THEN lastCall.config = ConfigSensors[Lowest(SegmentEntries(lastCall.path))][2]
        ELSE \A i \in 1..Len(ConfigSensors) :
                 includes(ConfigSensors[i][1], "*") => lastCall.config # ConfigSensors[i][2]

\* the claim's examples: the battery voltage pattern is chosen for battery 1
\* and no wildcard entry is chosen for the battery current
C15_Examples ==
    /\ SegmentMatch(PatBatVoltage, PathBat0) /\ RegexTest(PatBatVoltage, PathBat0)
    /\ SegmentMatch(PatBatVoltage, PathBat1) /\ RegexTest(PatBatVoltage, PathBat1)
    /\ ~SegmentMatch(PatBatVoltage, PathBatCurrent) /\ ~RegexTest(PatBatVoltage, PathBatCurrent)
    /\ ~SegmentMatch(PatAnyVoltage, PathBatCurrent) /\ ~RegexTest(PatAnyVoltage, PathBatCurrent)

\* C16: in raw mode every finite number is published as the number it is,
\* whatever the path, config and meta, and no discovery descriptor carries a
\* device_class.
RawNumber(call) == Payload("number", call.value.n, "", <<>>)

C16_RawMode ==
    scenario.rawMode =>
        /\ lastCall.fn = "convertValue" /\ isFinite(lastCall.value)
               => ~lastCall.threw /\ lastCall.out = RawNumber(lastCall)
        /\ lastCall.fn = "publishDiscovery" => lastCall.payload[1].device_class = ""

\* the same, leaving out the tuples the converter treats as dates
TreatedAsDate(call) ==
    includes(call.path, "datetime") \/ call.config.deviceClass = "timestamp"

C16_RawModeButDates ==
    scenario.rawMode =>
        /\ lastCall.fn = "convertValue" /\ isFinite(lastCall.value) /\ ~TreatedAsDate(lastCall)
               => ~lastCall.threw /\ lastCall.out = RawNumber(lastCall)
        /\ lastCall.fn = "publishDiscovery" => lastCall.payload[1].device_class = ""

\* C17: while one flattened tuple is processed at most one discovery and at
\* most one state publication are issued, and nothing is published outside
\* the processing of a tuple.
RECURSIVE SumOf(_, _)
SumOf(seq, field) ==
    IF seq = <<>> THEN 0
    ELSE (IF field = "discoveries" THEN Head(seq).discoveries ELSE Head(seq).states)
         + SumOf(Tail(seq), field)

C17_BoundedSideEffects ==
    \A pr \in Pairs :
        /\ \A i \in 1..Len(ArrivalsOf(pr)) :
               ArrivalsOf(pr)[i].discoveries <= 1 /\ ArrivalsOf(pr)[i].states <= 1
        /\ Len(DiscoveriesOf(pr)) = SumOf(ArrivalsOf(pr), "discoveries")
        /\ Len(StatesOf(pr)) = SumOf(ArrivalsOf(pr), "states")

\* a tuple that caused both publications, followed by one that caused none
C17_Witness ==
    \E pr \in Pairs :
        /\ Len(ArrivalsOf(pr)) = 2
        /\ ArrivalsOf(pr)[1].discoveries = 1 /\ ArrivalsOf(pr)[1].states = 1
        /\ ArrivalsOf(pr)[2].discoveries = 0 /\ ArrivalsOf(pr)[2].states = 0
        /\ ~ArrivalsOf(pr)[2].threw

\* C18: every pair with a processed tuple has its discovery publication,
\* whether or not the throttle let the state through, and the discovery
\* publication comes before the pair's first state publication.
C18_DiscoveryBeforeState ==
    \A pr \in Pairs :
        /\ ArrivalsOf(pr) # <<>> => DiscoveriesOf(pr) # <<>>
        /\ ArrivalsOf(pr) # <<>> => ArrivalsOf(pr)[1].discoveries = 1
        /\ StatesOf(pr) # <<>> =>
               /\ DiscoveriesOf(pr) # <<>>
               /\ DiscoveriesOf(pr)[1].seq < StatesOf(pr)[1].seq

\* a first tuple was discovered while the throttle held its state back, and a
\* later tuple of the pair was published
C18_Witness ==
    \E pr \in Pairs :
        /\ Len(ArrivalsOf(pr)) = 2
        /\ ArrivalsOf(pr)[1].discoveries = 1 /\ ArrivalsOf(pr)[1].states = 0
        /\ ~ArrivalsOf(pr)[1].threw
        /\ ArrivalsOf(pr)[2].states = 1
        /\ DiscoveriesOf(pr)[1].seq < StatesOf(pr)[1].seq

\* C19: no step removes a SensorKey from DiscoveryState.
C19_DiscoveryMonotonic == [][discoveredSensors \subseteq discoveredSensors']_vars

\* two keys are discovered and the telemetry connection was opened twice
C19_Witness ==
    /\ Cardinality(discoveredSensors) >= 2
    /\ Len(fetches) = 2

\* C20: an object away from the position path whose members are all scalars
\* becomes one tuple per member, at <path>.<key>; an empty object, an array,
\* an object with a non-scalar member, a null and a scalar stay one unchanged
\* tuple.  The tuples of one entry share its source and meta, and each of
\* them is discovered and throttled under a SensorKey of its own.
IsScalar(v) == v.kind \in {"number", "nan", "inf", "-inf", "string", "boolean", "null"}

ExpectedTuples(entry) ==
    IF /\ entry.value.kind = "object"
       /\ entry.value.m # <<>>
       /\ \A i \in 1..Len(entry.value.m) : IsScalar(entry.value.m[i][2])
    THEN [i \in 1..Len(entry.value.m) |->
             [path |-> entry.path \o <<".", entry.value.m[i][1]>>, value |-> entry.value.m[i][2]]]
    ELSE << [path |-> entry.path, value |-> entry.value] >>

\* the entries of the updates the scenario feeds
FedUpdates == UNION {{batch[k] : k \in 1..Len(batch)} : batch \in scenario.batches}
FedEntries == UNION {{update.values[i] : i \in 1..Len(update.values)} : update \in FedUpdates}

Siblings == {PathAttYaw, PathAttLabel, PathAttRoll}

C20_CompositeExpansion ==
    /\ \A entry \in FedEntries :
           ~includes(entry.path, "position")
               => expandObjectPaths(entry.path, entry.value) = ExpectedTuples(entry)
    /\ scenario.name = "composite" =>
           \A sid \in SourceIds :
               /\ \A p, q \in Siblings :
                      /\ Len(ArrivalsOf(<<sid, p>>)) = Len(ArrivalsOf(<<sid, q>>))
                      /\ p # q => KeyOf(<<sid, p>>) # KeyOf(<<sid, q>>)
               /\ \A p \in Siblings :
                      LET pr == <<sid, p>>
                      IN  ArrivalsOf(pr) # <<>> =>
                              /\ Len(DiscoveriesOf(pr)) = 1
                              /\ DiscoveriesOf(pr)[1].payload.unit_of_measurement = "rad"
                              /\ DiscoveriesOf(pr)[1].payload.device.identifiers = getDeviceId(sid)
                              /\ DiscoveriesOf(pr)[1].payload.state_topic = getStateTopic(p, sid)
                              /\ ArrivalsOf(pr)[1].states = 1
                              /\ KeyOf(pr) \in discoveredSensors
                              /\ KeyOf(pr) \in DOMAIN lastPublishTime
               /\ ArrivalsOf(<<sid, PathAtt>>) # <<>> =>
                      /\ Len(DiscoveriesOf(<<sid, PathAtt>>)) = 1
                      /\ Len(StatesOf(<<sid, PathAtt>>)) >= 1
                      /\ StatesOf(<<sid, PathAtt>>)[1].out.kind \in {"json", "json[]", "unknown"}

\* an object of three scalars was processed as three sensors, and the same
\* path carried an unexpanded value in the other delta
C20_Witness ==
    /\ scenario.name = "composite"
    /\ \A p \in Siblings :
           /\ Len(DiscoveriesOf(<<SourceIdOf(Src1), p>>)) = 1
           /\ Len(StatesOf(<<SourceIdOf(Src1), p>>)) = 1
    /\ Len(ArrivalsOf(<<SourceIdOf(Src1), PathAtt>>)) = 2
    /\ Len(StatesOf(<<SourceIdOf(Src1), PathAtt>>)) = 1

\* C21: after the telemetry socket closes without disconnect() having been
\* called, connect() is eventually called again, and every reopening emits
\* 'connected' (a registry fetch starts) and sends the subscription on the
\* new socket
C21_Reconnection ==
    /\ (ws = "closed") ~> (ws = "connecting")
    /\ [][(ws = "connecting" /\ ws' = "open")
            => (subscribed' /\ Len(fetches') = Len(fetches) + 1)]_vars

\* the socket is open again after a close, subscribed, with a second fetch
C21_Witness ==
    ws = "open" /\ subscribed /\ reconnectTimer = "fired" /\ Len(fetches) = 2

RECURSIVE LastSuccess(_)
\* when the latest state publication of a log that the broker accepted was
\* issued; 0 when there is none
LastSuccess(log) ==
    IF log = <<>> THEN 0
    ELSE IF ~log[Len(log)].failed THEN log[Len(log)].at
    ELSE LastSuccess(SubSeq(log, 1, Len(log) - 1))

\* C22: a ThrottleState entry is the time of the last successful state
\* publication of its SensorKey: the key has a state publication that the
\* broker accepted, and the entry equals the time of the latest one.
C22_ThrottleAccuracy ==
    \A pr \in Pairs :
        KeyOf(pr) \in DOMAIN lastPublishTime =>
            /\ \E i \in 1..Len(StatesOf(pr)) : ~StatesOf(pr)[i].failed
            /\ lastPublishTime[KeyOf(pr)] = LastSuccess(StatesOf(pr))

\* C22, the part the code keeps: an entry exists only for a key with a state
\* publication issued, and equals the time the latest one was issued.
C22_WrittenOnPublish ==
    \A pr \in Pairs :
        KeyOf(pr) \in DOMAIN lastPublishTime =>
            /\ StatesOf(pr) # <<>>
            /\ lastPublishTime[KeyOf(pr)] = StatesOf(pr)[Len(StatesOf(pr))].at

\* the arrivals of a pair whose processing issued a state publication
IssuedState(a) == a.states = 1
PublishedArrivals(pr) == SelectSeq(ArrivalsOf(pr), IssuedState)

\* what convertValue makes of the value and meta an arrival carried
ConvertedOf(pr, a) ==
    convertValue(scenario.rawMode, <<>>, pr[2], a.value, getSensorConfig(pr[2], a.value),
                 a.meta).out

\* C23: there is no retry queue for state: the state publications of a pair
\* are, in order, exactly those issued while one of its tuples was being
\* processed, each at that tuple's arrival time and carrying that tuple's
\* converted value; a throttled tuple, or one whose publication failed, is
\* never published afterwards.
C23_NoRetryQueue ==
    \A pr \in Pairs :
        /\ \A i \in 1..Len(ArrivalsOf(pr)) : ArrivalsOf(pr)[i].states \in {0, 1}
        /\ Len(StatesOf(pr)) = Len(PublishedArrivals(pr))
        /\ \A i \in 1..Len(StatesOf(pr)) :
               /\ StatesOf(pr)[i].at = PublishedArrivals(pr)[i].at
               /\ StatesOf(pr)[i].out = ConvertedOf(pr, PublishedArrivals(pr)[i])

\* a pair whose first publication failed and whose next update was throttled
C23_Witness ==
    \E pr \in Pairs :
        /\ Len(ArrivalsOf(pr)) = 2
        /\ Len(StatesOf(pr)) = 1
        /\ StatesOf(pr)[1].failed
        /\ ArrivalsOf(pr)[2].states = 0
        /\ ~ArrivalsOf(pr)[2].threw

\* C24: every SensorKey with a ThrottleState entry is in DiscoveryState, also
\* after failed publications and aborted batches.
C24_ThrottleWithinDiscovery ==
    DOMAIN lastPublishTime \subseteq discoveredSensors

\* an aborted batch left a discovered key without a throttle entry beside a
\* key that has one
C24_Witness ==
    /\ lastDelta.outcome = "aborted"
    /\ DOMAIN lastPublishTime # {}
    /\ \E key \in discoveredSensors : key \notin DOMAIN lastPublishTime

\* the (sourceId, path) pairs of the sources that are named by strings
NamedPairs ==
    { <<SourceIdOf(SrcN2k), PathTanksFuel>>, <<SourceIdOf(SrcN2kTanks), PathFuel>>,
      <<SourceIdOf(SrcN2k), PathTanksDotFuel>> }
AllPairs == Pairs \cup NamedPairs

\* C25: distinct (sourceId, path) pairs have distinct SensorKeys, so each
\* pair with a processed tuple has its own discovery publication and its
\* first converted update published, whatever other pairs were processed.
C25_KeyInjectivity ==
    \A p, q \in AllPairs :
        (p # q /\ ArrivalsOf(p) # <<>> /\ ArrivalsOf(q) # <<>>) =>
            /\ KeyOf(p) # KeyOf(q)
            /\ DiscoveriesOf(q) # <<>>
            /\ ~ArrivalsOf(q)[1].threw => StatesOf(q) # <<>>

\* C25 for source ids and paths without "_": the keys of distinct pairs
\* differ and every processed pair has its own discovery publication.
C25_PlainIds ==
    \A p, q \in Pairs :
        (p # q /\ ArrivalsOf(p) # <<>> /\ ArrivalsOf(q) # <<>>) =>
            /\ KeyOf(p) # KeyOf(q)
            /\ DiscoveriesOf(q) # <<>>
            /\ ~ArrivalsOf(q)[1].threw => StatesOf(q) # <<>>

\* two discovered pairs whose descriptors keep them apart on the broker
DistinctOnBroker(p, q) ==
    /\ DiscoveriesOf(p)[1].payload.unique_id # DiscoveriesOf(q)[1].payload.unique_id
    /\ DiscoveriesOf(p)[1].payload.state_topic # DiscoveriesOf(q)[1].payload.state_topic
    /\ getDiscoveryTopic(p[2], p[1]) # getDiscoveryTopic(q[2], q[1])

\* C26: two discovered sensors with distinct SensorKeys never share a
\* discovery topic, a state topic or a unique_id.
C26_TopicUniqueness ==
    \A p, q \in AllPairs :
        (KeyOf(p) # KeyOf(q) /\ DiscoveriesOf(p) # <<>> /\ DiscoveriesOf(q) # <<>>)
            => DistinctOnBroker(p, q)

\* C26 for source ids and paths without "_": the topics and unique_ids of
\* distinct SensorKeys differ.
C26_PlainIds ==
    \A p, q \in Pairs :
        (KeyOf(p) # KeyOf(q) /\ DiscoveriesOf(p) # <<>> /\ DiscoveriesOf(q) # <<>>)
            => DistinctOnBroker(p, q)

\* what the latest convertValue call returns when nothing was converted
\* before it
FreshConversion ==
    convertValue(scenario.rawMode, <<>>, lastCall.path, lastCall.value, lastCall.config,
                 lastCall.meta)

\* C27: the result of a conversion depends on the tuple's own path, value and
\* meta alone: it is what the same call returns when no delta was processed
\* before it.
C27_HistoryIndependence ==
    lastCall.fn = "convertValue" =>
        /\ lastCall.threw = FreshConversion.threw
        /\ lastCall.out = FreshConversion.out

\* C27 as far as the code keeps it: the result is the fresh one whenever the
\* transform cached for the path is the one the tuple's own meta implies.
C27_SameUnits ==
    (/\ lastCall.fn = "convertValue"
     /\ lastCall.path \in DOMAIN tempTransformCache
            => tempTransformCache[lastCall.path] = TransformOf(lastCall.meta))
        => /\ lastCall.threw = FreshConversion.threw
           /\ lastCall.out = FreshConversion.out

\* C28: once deviceRegistryReady is true the registry no longer changes, and
\* the discovered sensors of one source all carry the same device name,
\* manufacturer and model.
C28_RegistryStable ==
    /\ [][deviceRegistryReady => devices' = devices]_vars
    /\ [](\A p, q \in Pairs :
              (p[1] = q[1] /\ DiscoveriesOf(p) # <<>> /\ DiscoveriesOf(q) # <<>>)
                  => DiscoveriesOf(p)[1].payload.device = DiscoveriesOf(q)[1].payload.device)

\* C28 as far as the code keeps it: readiness is never withdrawn, and the
\* registry changes only when the body of a sources response has been read.
C28_ChangesOnResponseEnd ==
    [][/\ deviceRegistryReady => deviceRegistryReady'
       /\ devices' # devices =>
              \E i \in 1..Len(fetches) :
                  fetches[i].http = "receiving" /\ fetches'[i].http = "closed"]_vars

\* the position sensor of source 1 and the sensors its members expand to
PositionPairs ==
    { <<SourceIdOf(Src1), PathPos>>,
      <<SourceIdOf(Src1), PathPos \o <<".", "latitude">> >>,
      <<SourceIdOf(Src1), PathPos \o <<".", "longitude">> >> }

\* the descriptor declares value_template and json_attributes_topic
Structured(descriptor) ==
    descriptor.value_template # "" /\ descriptor.json_attributes_topic # <<>>

\* the state payload is the JSON document with value, latitude and longitude
IsPositionDocument(out) ==
    out.kind = "position" /\ \E i \in 1..Len(out.m) : out.m[i][1] = "value"

\* C29: every state published for a sensor whose descriptor is structured is
\* a JSON document with a value field, and a sensor whose descriptor is not
\* structured never gets a position document.
C29_ShapeAgreement ==
    \A pr \in Pairs \cup PositionPairs :
        DiscoveriesOf(pr) # <<>> =>
            \A i \in 1..Len(StatesOf(pr)) :
                Structured(DiscoveriesOf(pr)[1].payload) <=> IsPositionDocument(StatesOf(pr)[i].out)

\* C29 as far as the code keeps it: a position document is published only
\* for a structured sensor, and a complete position fix of a structured
\* sensor is published as a position document.
C29_PositionDocuments ==
    \A pr \in Pairs \cup PositionPairs :
        \A i \in 1..Len(StatesOf(pr)) :
            /\ IsPositionDocument(StatesOf(pr)[i].out)
                   => Structured(DiscoveriesOf(pr)[1].payload)
            /\ (\E j \in 1..Len(ArrivalsOf(pr)) :
                    /\ ArrivalsOf(pr)[j].at = StatesOf(pr)[i].at
                    /\ ArrivalsOf(pr)[j].value = PosFix.value)
                   => IsPositionDocument(StatesOf(pr)[i].out)

\* C30: once disconnect() has been called no reconnect timer is pending, no
\* step starts a new connection, and reconnecting is never switched on again,
\* whatever close events and timers were outstanding.
C30_DisconnectFinal ==
    [][~shouldReconnect' =>
          /\ reconnectTimer' # "pending"
          /\ ws' = "connecting" => ws = "connecting"
          /\ ~shouldReconnect => UNCHANGED shouldReconnect]_vars

\* disconnect() was called after a reconnect, and the socket it closed has
\* reported its close
C30_Witness ==
    /\ ~shouldReconnect
    /\ ws = "closed"
    /\ reconnectTimer = "null"
    /\ Len(fetches) = 2

====
